---- MODULE Spec2Model ----
(***************************************************************************)
(* Model of the kiro-proxy command line tool (src/kiro/cli.py): the        *)
(* credential locator, the configuration store and the install, init,     *)
(* start and status commands, run one after another against a file system *)
(* that the IDE and the operator change between two invocations.          *)
(***************************************************************************)
EXTENDS Integers, Sequences, FiniteSets, TLC

VARIABLES
    fs,      \* the credential files of ~/.aws/sso/cache: path -> [kind, mtime]
    cfg,     \* the content of ~/.kiro-proxy/config.json
    writer,  \* who wrote cfg last: "operator", "install" or "init"
    run      \* the CLI invocation that ended last: its outcome, and its
             \* arguments once it has saved a configuration or handed off

vars == <<fs, cfg, writer, run>>

(***************************************************************************)
(* Bounds of the model.                                                   *)
(***************************************************************************)
\* modification times range over 1..MaxTime
MaxTime == 3

(***************************************************************************)
(* Paths.  A path is [dir, name]; dir "" is a path relative to the        *)
(* working directory, TildeDir is the unexpanded "~/.aws/sso/cache".      *)
(***************************************************************************)
CacheDir == "/home/op/.aws/sso/cache"
TildeDir == "~/.aws/sso/cache"
\* the working directory of the invocations
Cwd == CacheDir
\* where a literal "~" component ends up when it is not expanded
CwdTilde == "/home/op/.aws/sso/cache/~/.aws/sso/cache"

CanonicalName == "kiro-auth-token.json"
Names == {CanonicalName, "sso-a.json", "sso-b.json"}

P(d, n) == [dir |-> d, name |-> n]
EmptyPath == P("", "")
CachePaths == {P(CacheDir, n) : n \in Names}
\* what an operator can type as a path
TypedPaths == {P("", "sso-a.json"), P(CacheDir, CanonicalName),
               P(TildeDir, CanonicalName)}

\* Path.expanduser()
ExpandUser(p) == IF p.dir = TildeDir THEN P(CacheDir, p.name) ELSE p

\* Path.resolve(): absolute paths stay, the others are joined to the cwd
Resolve(p) ==
    CASE p.dir = ""       -> P(Cwd, p.name)
      [] p.dir = TildeDir -> P(CwdTilde, p.name)
      [] OTHER            -> p

(***************************************************************************)
(* Files.  The kind of a file is what reading and parsing it gives:       *)
(*   "token_obj"    {"accessToken": "abc"}                                 *)
(*   "plain_obj"    {"foo": "bar"}                                         *)
(*   "marker_text"  accessToken=abc     (the marker, but no JSON)          *)
(*   "unreadable"   open() or the UTF-8 decoding raises                    *)
(***************************************************************************)
Kinds == {"token_obj", "plain_obj", "marker_text", "unreadable"}
Missing == [kind |-> "missing", mtime |-> 0]
FileStates == {Missing} \cup [kind : Kinds, mtime : 1..MaxTime]

FileAt(p) == IF p \in CachePaths THEN fs[p] ELSE Missing
\* Path.exists(), relative paths taken from the working directory
Exists(p) == FileAt(Resolve(p)).kind # "missing"

\* 'accessToken' in content or 'refreshToken' in content, on the text read;
\* FALSE when open() or read() raises (except Exception: continue)
MarkerCheck(p) == FileAt(p).kind \in {"token_obj", "marker_text"}

\* open() + json.load() + the membership test of install and init:
\* what the try block ends with
ParseCredentials(p) ==
    CASE FileAt(p).kind = "token_obj"   -> "ok"
      [] FileAt(p).kind = "plain_obj"   -> "missing_tokens"
      [] FileAt(p).kind = "marker_text" -> "JSONDecodeError"
      [] OTHER                          -> "OSError"

(***************************************************************************)
(* Options: <<>> is None, <<v>> is the value v.                           *)
(***************************************************************************)
None == <<>>
Some(v) == <<v>>
IsSome(o) == Len(o) = 1
Val(o) == o[1]

(***************************************************************************)
(* find_kiro_ide_credentials.  order is the order in which glob lists the *)
(* directory, a sequence of the names of the directory without repeats.   *)
(***************************************************************************)
Orders == {s \in [1..Cardinality(Names) -> Names] :
              \A i, j \in 1..Cardinality(Names) : i # j => s[i] # s[j]}

\* list(cache_dir.glob("*.json")): the files that exist, in directory order
RECURSIVE Glob(_)
Glob(order) ==
    IF order = <<>> THEN <<>>
    ELSE LET p == P(CacheDir, Head(order))
         IN  (IF FileAt(p).kind # "missing" THEN <<p>> ELSE <<>>)
             \o Glob(Tail(order))

\* the sort key comparison of json_files.sort(key=st_mtime, reverse=True)
Before_Ascending(a, b) == FileAt(a).mtime < FileAt(b).mtime
Before(a, b) == FileAt(a).mtime > FileAt(b).mtime

\* insert p into the sorted s after every element that does not come after it
RECURSIVE InsertSorted(_, _)
InsertSorted(p, s) ==
    IF s = <<>> THEN <<p>>
    ELSE IF Before(p, Head(s)) THEN <<p>> \o s
    ELSE <<Head(s)>> \o InsertSorted(p, Tail(s))

\* list.sort: stable, files of equal key keep their directory order
RECURSIVE SortFiles(_)
SortFiles(s) ==
    IF s = <<>> THEN <<>>
    ELSE InsertSorted(s[Len(s)], SortFiles(SubSeq(s, 1, Len(s) - 1)))

\* for json_file in json_files: the first file that passes the marker check
RECURSIVE FirstWithMarker(_)
FirstWithMarker(s) ==
    IF s = <<>> THEN None
    ELSE IF MarkerCheck(Head(s)) THEN Some(Head(s))
    ELSE FirstWithMarker(Tail(s))

\* possible_paths: the standard path of the Kiro IDE
CanonicalPath == P(CacheDir, CanonicalName)

find_kiro_ide_credentials(order) ==
    IF FileAt(CanonicalPath).kind # "missing" /\ MarkerCheck(CanonicalPath)
    THEN Some(CanonicalPath)
    ELSE FirstWithMarker(SortFiles(Glob(order)))

\* what the search can return, over every order of the directory listing
LocateResults == {find_kiro_ide_credentials(o) : o \in Orders}

(***************************************************************************)
(* The configuration file.  Its content is                                *)
(*   [t |-> "missing"]          no file                                    *)
(*   [t |-> "corrupt"]          a file that cannot be read or parsed       *)
(*   [t |-> "list", n |-> k]    valid JSON that is no object: [] or [1]    *)
(*   [t |-> "dict", d |-> ...]  a JSON object; d gives each key's value,   *)
(*                              None for a key that is absent              *)
(***************************************************************************)
Dict(cf, key, port) == [credentials_file |-> cf, api_key |-> key, port |-> port]
EmptyDict == Dict(None, None, None)
DictCfg(d) == [t |-> "dict", d |-> d]

\* what an operator can leave in the file by hand
OperatorConfigs ==
    { [t |-> "missing"], [t |-> "corrupt"],
      [t |-> "list", n |-> 0], [t |-> "list", n |-> 1],
      DictCfg(EmptyDict),
      DictCfg(Dict(Some(EmptyPath), Some("mykey"), None)),
      DictCfg(Dict(Some(CanonicalPath), None, None)) }

\* get_config: json.load's value, {} when the file is missing or load raises
get_config(file) ==
    IF file.t \in {"missing", "corrupt"} THEN DictCfg(EmptyDict) ELSE file

\* save_config: the file holds exactly the dictionary it is given
save_config(config) == DictCfg(config)

\* dict.get(key, default)
Get(d, key, default) == IF IsSome(d[key]) THEN Val(d[key]) ELSE default

\* bool(x) of a JSON value read by get_config
TruthyCfg(c) ==
    IF c.t = "list" THEN c.n > 0
    ELSE \E k \in DOMAIN c.d : IsSome(c.d[k])

\* secrets.token_urlsafe(16): 22 URL-safe characters
Tokens == {"Vpp59EPC97Ii5_PGGlkrYg"}

(***************************************************************************)
(* The record of an invocation.                                           *)
(***************************************************************************)
Idle == [cmd |-> "none", args |-> None, exit |-> 0, msg |-> "", exc |-> "none",
         located |-> FALSE, found |-> None, saved |-> FALSE,
         envSet |-> FALSE, envCreds |-> EmptyPath, envKey |-> "",
         handoff |-> FALSE, port |-> 0]

\* sys.exit(code) after the message msg
Fail(r, code, msg) == [r EXCEPT !.exit = code, !.msg = msg]
\* an exception no handler catches: the traceback, exit status 1
Crash(r, exc) == [r EXCEPT !.exit = 1, !.msg = "traceback", !.exc = exc]

\* the port written by install and the fallback of init and start
DefaultPort == 8000

(***************************************************************************)
(* int(port_input).  An entry is a sequence of characters; int accepts an *)
(* optional sign followed by decimal digits and raises ValueError         *)
(* otherwise.                                                             *)
(***************************************************************************)
Digits == {"0", "1", "2", "3", "4", "5", "6", "7", "8", "9"}
DigitVal(c) ==
    CASE c = "0" -> 0 [] c = "1" -> 1 [] c = "2" -> 2 [] c = "3" -> 3
      [] c = "4" -> 4 [] c = "5" -> 5 [] c = "6" -> 6 [] c = "7" -> 7
      [] c = "8" -> 8 [] c = "9" -> 9
IsDigits(s) == Len(s) > 0 /\ \A i \in 1..Len(s) : s[i] \in Digits
RECURSIVE DecimalValue(_)
DecimalValue(s) ==
    IF s = <<>> THEN 0
    ELSE 10 * DecimalValue(SubSeq(s, 1, Len(s) - 1)) + DigitVal(s[Len(s)])
\* Some(n) when int(s) returns n, None when it raises ValueError
IntOf(s) ==
    IF IsDigits(s) THEN Some(DecimalValue(s))
    ELSE IF Len(s) > 1 /\ s[1] = "-" /\ IsDigits(Tail(s))
         THEN Some(0 - DecimalValue(Tail(s)))
    ELSE IF Len(s) > 1 /\ s[1] = "+" /\ IsDigits(Tail(s))
         THEN Some(DecimalValue(Tail(s)))
    ELSE None

\* what the operator can enter at the port prompt; <<>> is the Enter key
PortInputs == { <<>>, <<"9", "0", "0", "0">>, <<"0">>, <<"-", "1">>,
                <<"a", "b", "c">> }
\* click.prompt("? Server port", default="8000")
PortPrompt(entry) == IF entry = <<>> THEN <<"8", "0", "0", "0">> ELSE entry
\* try: port = int(port_input)  except ValueError: port = 8000
init_port(entry) ==
    IF IsSome(IntOf(PortPrompt(entry))) THEN Val(IntOf(PortPrompt(entry)))
    ELSE DefaultPort

(***************************************************************************)
(* start                                                                  *)
(***************************************************************************)
\* what the serving component ends with
ServerEnds == {"interrupt", "error"}
\* --port values of the command line
PortArgs == {None, Some(0), Some(7000)}

\* server_port = port or config.get('port', 8000)
server_port(port, d) ==
    IF IsSome(port) /\ Val(port) # 0 THEN Val(port)
    ELSE Get(d, "port", DefaultPort)

\* the body of start, entered with the record r of the running command
start_body(r, file, port, srv) ==
    LET config == get_config(file)
    IN  IF config.t = "list"
        THEN Crash(r, "AttributeError")
        ELSE IF Get(config.d, "credentials_file", EmptyPath) = EmptyPath
        THEN Fail(r, 1, "not_configured")
        ELSE IF ~Exists(Val(config.d.credentials_file))
        THEN Fail(r, 1, "creds_not_found")
        ELSE [r EXCEPT !.args = IF r.cmd = "start" THEN port ELSE @,
                       !.envSet = TRUE,
                       !.envCreds = Val(config.d.credentials_file),
                       !.envKey = Get(config.d, "api_key", ""),
                       !.handoff = TRUE,
                       !.port = server_port(port, config.d),
                       !.exit = IF srv = "interrupt" THEN 0 ELSE 1,
                       !.msg = IF srv = "interrupt" THEN "stopped"
                               ELSE "server_failed"]

Start(port, srv) ==
    /\ run' = start_body([Idle EXCEPT !.cmd = "start"], cfg, port, srv)
    /\ UNCHANGED <<fs, cfg, writer>>

(***************************************************************************)
(* status                                                                 *)
(***************************************************************************)
Status ==
    /\ run' = LET r == [Idle EXCEPT !.cmd = "status"]
                  config == get_config(cfg)
              IN  IF ~TruthyCfg(config) THEN [r EXCEPT !.msg = "not_configured"]
                  ELSE IF config.t = "list" THEN Crash(r, "AttributeError")
                  ELSE [r EXCEPT !.msg = "report"]
    /\ UNCHANGED <<fs, cfg, writer>>

(***************************************************************************)
(* install                                                                *)
(***************************************************************************)
\* --api-key values of the command line
KeyArgs == {None, Some(""), Some("mykey")}
\* the CREDENTIALS_FILE argument
PathArgs == {None, Some(EmptyPath)} \cup {Some(p) : p \in TypedPaths}

\* click.Path(exists=True): the argument, when given, names an existing file
ClickPathOk(credentials_file) ==
    IsSome(credentials_file) => Exists(Val(credentials_file))

\* if not api_key: api_key = secrets.token_urlsafe(16)
install_api_key_IfNone(api_key, tok) ==
    IF api_key = None THEN tok ELSE Val(api_key)
install_api_key(api_key, tok) ==
    IF api_key = None \/ Val(api_key) = "" THEN tok ELSE Val(api_key)

\* config = {"credentials_file": str(creds_path), "api_key": api_key, "port": 8000}
install_config_KeepPort(creds_path, api_key, old) ==
    Dict(Some(creds_path), Some(api_key),
         IF old.t = "dict" /\ IsSome(old.d.port) THEN old.d.port
         ELSE Some(DefaultPort))
install_config(creds_path, api_key, old) ==
    Dict(Some(creds_path), Some(api_key), Some(DefaultPort))

\* the try block of install: the message and exit of each way it ends
install_validate(r, creds_path) ==
    CASE ParseCredentials(creds_path) = "ok" -> r
      [] ParseCredentials(creds_path) = "missing_tokens" ->
            Fail(r, 1, "missing_tokens")
      [] ParseCredentials(creds_path) = "JSONDecodeError" ->
            Fail(r, 1, "invalid_json")
      [] OTHER -> Fail(r, 1, "read_error")

\* whether control reaches save_config after the try block
install_saves_NoExit(v) == v.msg \in {"", "missing_tokens"}
install_saves(v) == v.exit = 0

\* the body of install once the source of the credentials is chosen
install_with(r, args, creds_path, api_key, tok) ==
    LET v == install_validate(r, creds_path)
    IN  /\ run' = IF install_saves(v)
                  THEN [v EXCEPT !.saved = TRUE, !.args = args]
                  ELSE v
        /\ IF install_saves(v)
           THEN /\ cfg' = save_config(install_config(creds_path,
                                         install_api_key(api_key, tok), cfg))
                /\ writer' = "install"
           ELSE UNCHANGED <<cfg, writer>>

Install(credentials_file, ide, api_key, found, tok) ==
    LET r == [Idle EXCEPT !.cmd = "install"]
        args == [path |-> credentials_file, ide |-> ide, key |-> api_key]
    IN  /\ UNCHANGED fs
        /\ IF ~ClickPathOk(credentials_file)
           THEN /\ run' = Fail(r, 2, "usage_error")
                /\ UNCHANGED <<cfg, writer>>
           ELSE IF ide
           THEN IF IsSome(found)
                THEN install_with([r EXCEPT !.located = TRUE, !.found = found],
                                  args, Val(found), api_key, tok)
                ELSE /\ run' = Fail([r EXCEPT !.located = TRUE], 1,
                                    "ide_not_found")
                     /\ UNCHANGED <<cfg, writer>>
           ELSE IF IsSome(credentials_file)
                   /\ Val(credentials_file) # EmptyPath
           THEN install_with(r, args, Resolve(Val(credentials_file)),
                             api_key, tok)
           ELSE /\ run' = Fail(r, 1, "need_source")
                /\ UNCHANGED <<cfg, writer>>

(***************************************************************************)
(* init                                                                   *)
(***************************************************************************)
Choices == {"1", "2", "3"}

\* config = {"credentials_file": str(creds_path), "api_key": api_key, "port": port}
init_config(creds_path, api_key, port) ==
    Dict(Some(creds_path), Some(api_key), Some(port))

\* the port prompt, the key, save_config and the offer to start
init_save(r, creds_path, entry, tok, start_now, srv) ==
    LET saved == save_config(init_config(creds_path, tok, init_port(entry)))
        r1    == [r EXCEPT !.saved = TRUE]
    IN  /\ cfg' = saved
        /\ writer' = "init"
        /\ run' = IF start_now
                  THEN start_body(r1, saved, Some(init_port(entry)), srv)
                  ELSE r1

\* choice 3: the path prompt and the try block
init_manual(r, typed, entry, tok, start_now, srv) ==
    LET file_path == Resolve(ExpandUser(typed))
    IN  IF ~Exists(file_path)
        THEN run' = Fail(r, 1, "file_not_found") /\ UNCHANGED <<cfg, writer>>
        ELSE CASE ParseCredentials(file_path) = "ok" ->
                    init_save(r, file_path, entry, tok, start_now, srv)
               [] ParseCredentials(file_path) = "missing_tokens" ->
                    run' = Fail(r, 1, "missing_tokens")
                    /\ UNCHANGED <<cfg, writer>>
               [] ParseCredentials(file_path) = "JSONDecodeError" ->
                    run' = Fail(r, 1, "invalid_json")
                    /\ UNCHANGED <<cfg, writer>>
               [] OTHER ->
                    run' = Crash(r, ParseCredentials(file_path))
                    /\ UNCHANGED <<cfg, writer>>

InitWizard(choice, found, typed, entry, tok, start_now, srv) ==
    LET r == [Idle EXCEPT !.cmd = "init", !.args = choice]
    IN  /\ UNCHANGED fs
        /\ CASE choice = "1" ->
                  IF IsSome(found)
                  THEN init_save([r EXCEPT !.located = TRUE, !.found = found],
                                 Val(found), entry, tok, start_now, srv)
                  ELSE /\ run' = Fail([r EXCEPT !.located = TRUE], 1,
                                      "ide_not_found")
                       /\ UNCHANGED <<cfg, writer>>
             [] choice = "2" ->
                  /\ run' = Fail(r, 1, "not_available")
                  /\ UNCHANGED <<cfg, writer>>
             [] choice = "3" ->
                  init_manual(r, typed, entry, tok, start_now, srv)

(***************************************************************************)
(* The environment: the IDE and the operator between two invocations.     *)
(***************************************************************************)
WriteFile(p, kind, t) ==
    /\ fs' = [fs EXCEPT ![p] = [kind |-> kind, mtime |-> t]]
    /\ run' = Idle
    /\ UNCHANGED <<cfg, writer>>

DeleteFile(p) ==
    /\ fs[p] # Missing
    /\ fs' = [fs EXCEPT ![p] = Missing]
    /\ run' = Idle
    /\ UNCHANGED <<cfg, writer>>

EditConfig(c) ==
    /\ cfg' = c
    /\ writer' = "operator"
    /\ run' = Idle
    /\ UNCHANGED fs

(***************************************************************************)
(* The specification.                                                     *)
(***************************************************************************)
Init ==
    /\ fs = [p \in CachePaths |-> Missing]
    /\ cfg = [t |-> "missing"]
    /\ writer = "operator"
    /\ run = Idle

DoInstall ==
    \E credentials_file \in PathArgs, ide \in BOOLEAN, api_key \in KeyArgs,
       tok \in Tokens :
        \E found \in (IF ide THEN LocateResults ELSE {None}) :
            Install(credentials_file, ide, api_key, found, tok)

\* the inputs a choice does not read are not drawn
DoInit ==
    \/ \E found \in LocateResults :
          IF IsSome(found)
          THEN \E entry \in PortInputs, tok \in Tokens, start_now \in BOOLEAN :
                 \E srv \in (IF start_now THEN ServerEnds ELSE {"interrupt"}) :
                    InitWizard("1", found, EmptyPath, entry, tok, start_now, srv)
          ELSE InitWizard("1", found, EmptyPath, <<>>, "", FALSE, "interrupt")
    \/ InitWizard("2", None, EmptyPath, <<>>, "", FALSE, "interrupt")
    \/ \E typed \in TypedPaths :
          IF Exists(Resolve(ExpandUser(typed)))
             /\ ParseCredentials(Resolve(ExpandUser(typed))) = "ok"
          THEN \E entry \in PortInputs, tok \in Tokens, start_now \in BOOLEAN :
                 \E srv \in (IF start_now THEN ServerEnds ELSE {"interrupt"}) :
                    InitWizard("3", None, typed, entry, tok, start_now, srv)
          ELSE InitWizard("3", None, typed, <<>>, "", FALSE, "interrupt")

DoStart == \E port \in PortArgs, srv \in ServerEnds : Start(port, srv)

\* The flows read no modification time but through the search, and with
\* equal times the search returns, over the orders of the directory listing,
\* every file that passes the marker check once the standard path fails:
\* every result it has under any assignment of times.  Files are written
\* here with one time; SpecLocate writes them with every time.
DoSaveFile == \E p \in CachePaths, kind \in Kinds : WriteFile(p, kind, 1)

DoDeleteFile == \E p \in CachePaths : DeleteFile(p)

DoEditConfig == \E c \in OperatorConfigs : EditConfig(c)

Next ==
    \/ DoInstall
    \/ DoInit
    \/ DoStart
    \/ Status
    \/ DoSaveFile
    \/ DoDeleteFile
    \/ DoEditConfig

Spec == Init /\ [][Next]_vars

(***************************************************************************)
(* The search alone, over every content of the cache directory.           *)
(***************************************************************************)
Locate(order) ==
    /\ run' = [Idle EXCEPT !.cmd = "locate", !.located = TRUE,
                           !.found = find_kiro_ide_credentials(order)]
    /\ UNCHANGED <<fs, cfg, writer>>

DoLocate == \E order \in Orders : Locate(order)

DoWriteFile ==
    \E p \in CachePaths, kind \in Kinds, t \in 1..MaxTime : WriteFile(p, kind, t)

NextLocate ==
    \/ DoLocate
    \/ DoWriteFile
    \/ DoDeleteFile

SpecLocate == Init /\ [][NextLocate]_vars

(***************************************************************************)
(* Properties.  They read the state an invocation leaves: the environment *)
(* actions reset run, so fs and cfg are those the invocation ended with,  *)
(* and, for an invocation that did not save, those it started with.       *)
(***************************************************************************)
\* the configuration file holds an object with a non-empty credentials_file
HasCredentialsFile ==
    /\ cfg.t = "dict"
    /\ IsSome(cfg.d.credentials_file)
    /\ Val(cfg.d.credentials_file) # EmptyPath
\* ... and the file it names is on disk
CredentialsThere ==
    /\ HasCredentialsFile
    /\ LET q == Val(cfg.d.credentials_file)
       IN  \E p \in CachePaths :
             /\ fs[p].kind # "missing"
             /\ p.name = q.name
             /\ q.dir \in {"", CacheDir}

\* C1: start exports the credentials path and the API key and hands off to
\* the server if and only if the configuration has a non-empty
\* credentials_file and that file exists; with no credentials_file it fails
\* with the 'not configured' error, with the file gone with the 'credentials
\* file not found' error, and in both cases it exits non-zero, sets no
\* environment variable and does not invoke the server.
C1_StartContract ==
    run.cmd = "start" =>
        /\ (run.handoff /\ run.envSet) <=> CredentialsThere
        /\ run.handoff =>
              /\ run.envCreds = Val(cfg.d.credentials_file)
              /\ run.envKey = Get(cfg.d, "api_key", "")
        /\ ~HasCredentialsFile =>
              /\ run.msg = "not_configured"
              /\ run.exit # 0 /\ ~run.envSet /\ ~run.handoff
        /\ (HasCredentialsFile /\ ~CredentialsThere) =>
              /\ run.msg = "creds_not_found"
              /\ run.exit # 0 /\ ~run.envSet /\ ~run.handoff

\* C2: an install that fails exits non-zero and leaves the configuration
\* file exactly as it was before the call.
C2_FailedInstallKeepsConfig ==
    [][(run'.cmd = "install" /\ (run'.exit # 0 \/ ~run'.saved))
          => (run'.exit # 0 /\ ~run'.saved /\ cfg' = cfg)]_vars
\* a failed install (the file holds no token) over an earlier configuration
C2_Witness ==
    /\ run.cmd = "install" /\ run.msg = "missing_tokens" /\ run.exit = 1
    /\ cfg.t = "dict"

\* the file install chose: the one the search found with --ide, else the
\* file the argument names, as an absolute path
InstallChose(cf) ==
    /\ cf \in CachePaths
    /\ IF run.args.ide THEN run.found = Some(cf)
       ELSE cf.name = Val(run.args.path).name

\* C3 (as stated): a successful install leaves exactly {credentials_file: the
\* absolute path of the chosen file, api_key: the supplied key, or a generated
\* one when none is supplied, port: 8000}.
C3_InstallOverwrites_Original ==
    (run.cmd = "install" /\ run.saved) =>
        /\ cfg.t = "dict"
        /\ IsSome(cfg.d.credentials_file)
        /\ InstallChose(Val(cfg.d.credentials_file))
        /\ IsSome(cfg.d.api_key)
        /\ IF run.args.key = None THEN Val(cfg.d.api_key) \in Tokens
           ELSE Val(cfg.d.api_key) = Val(run.args.key)
        /\ cfg.d.port = Some(8000)

\* C3 (amended): a successful install leaves exactly {credentials_file: the
\* absolute path of the chosen file, api_key: the supplied key when it is not
\* empty, a generated one when no key or an empty key is supplied, port:
\* 8000}, whatever the configuration was before.
C3_InstallOverwrites ==
    (run.cmd = "install" /\ run.saved) =>
        /\ cfg.t = "dict"
        /\ IsSome(cfg.d.credentials_file)
        /\ InstallChose(Val(cfg.d.credentials_file))
        /\ IsSome(cfg.d.api_key)
        /\ IF run.args.key \in {None, Some("")}
           THEN Val(cfg.d.api_key) \in Tokens
           ELSE Val(cfg.d.api_key) = Val(run.args.key)
        /\ cfg.d.port = Some(8000)
\* a successful install with a relative path and --api-key ""
C3_Witness ==
    /\ run.cmd = "install" /\ run.saved /\ run.exit = 0
    /\ run.args.key = Some("") /\ ~run.args.ide
    /\ Val(run.args.path).dir = ""

\* C4: when start hands off, the port is the --port argument whenever one is
\* given, otherwise the stored port whenever one is stored, otherwise 8000.
C4_PortPrecedence ==
    (run.cmd = "start" /\ run.handoff) =>
        run.port = IF IsSome(run.args) THEN Val(run.args)
                   ELSE IF IsSome(cfg.d.port) THEN Val(cfg.d.port)
                   ELSE 8000

\* C5: whatever the configuration file holds that is not a configuration
\* (no file, an unreadable or corrupted one), loading it gives the empty
\* configuration and start and status report 'not configured' without an
\* exception.
C5_LoadFailsSoft ==
    (run.cmd \in {"start", "status"} /\ cfg.t # "dict") =>
        (run.exc = "none" /\ run.msg = "not_configured")

\* the files of the cache directory
Present == {p \in CachePaths : fs[p].kind # "missing"}
\* they have distinct modification times and every one holds the marker
AllMarkedDistinct ==
    /\ Present # {}
    /\ \A p \in Present : fs[p].kind \in {"token_obj", "marker_text"}
    /\ \A p, q \in Present : p # q => fs[p].mtime # fs[q].mtime
Newest == CHOOSE p \in Present : \A q \in Present : fs[q].mtime <= fs[p].mtime

\* C6 (as stated): over a cache directory whose JSON files have distinct
\* modification times and all hold the marker, the search returns the most
\* recently modified file.
C6_LocateNewest_Original ==
    (run.located /\ AllMarkedDistinct) => run.found = Some(Newest)

\* C6 (amended): over such a directory the search returns
\* kiro-auth-token.json when that file is present, and otherwise the most
\* recently modified file.
C6_LocateCanonicalThenNewest ==
    (run.located /\ AllMarkedDistinct) =>
        run.found = Some(IF CanonicalPath \in Present THEN CanonicalPath
                         ELSE Newest)
\* a search over two files, none of them the standard one
C6_Witness ==
    /\ run.located /\ AllMarkedDistinct
    /\ CanonicalPath \notin Present /\ Cardinality(Present) = 2

\* C7: a configuration is saved only once the chosen credentials file has
\* been parsed as JSON and found to hold accessToken or refreshToken.
C7_SavedOnlyParsed ==
    run.saved => fs[Val(cfg.d.credentials_file)].kind = "token_obj"

\* C8: the port stored by install and init is a positive integer.
C8_StoredPortPositive ==
    writer \in {"install", "init"} =>
        (cfg.t = "dict" /\ IsSome(cfg.d.port) /\ Val(cfg.d.port) > 0)

\* C9: the api_key stored by install and init is never empty, and the key
\* start exports when it hands off on that configuration is the stored key.
C9_ApiKeyNonEmpty ==
    writer \in {"install", "init"} =>
        /\ cfg.t = "dict"
        /\ IsSome(cfg.d.api_key)
        /\ Val(cfg.d.api_key) # ""
        /\ run.handoff => (run.envSet /\ run.envKey = Val(cfg.d.api_key))
\* start hands off on a configuration install wrote with a generated key
C9_Witness ==
    /\ writer = "install" /\ run.cmd = "start" /\ run.handoff
    /\ Val(cfg.d.api_key) \in Tokens

\* C10: no flow ends with an exception that nothing catches.
C10_NoUncaughtException == run.exc = "none"

====
